---- MODULE Spec2Model ----
(***************************************************************************)
(* Model of packages/valory/skills/abstract_round_abci/base.py: the        *)
(* Period controller, its Blockchain and BlockBuilder, and the             *)
(* AbstractRound transaction dispatch.                                     *)
(*                                                                         *)
(* Every method is an operator from the object's state (and the call's     *)
(* inputs) to the state it leaves and the way the call ends; every entry   *)
(* point of Period is one action that applies its operator.  A call that   *)
(* raises leaves whatever the code had changed before the raise.  The      *)
(* concrete rounds are not part of the modelled code: which handlers a     *)
(* round class has, what a checker answers and what end_block does are     *)
(* inputs.                                                                 *)
(*                                                                         *)
(* AbstractRound, ConsensusParams, the payload registry with the           *)
(* transaction codec, and BasePeriodState are also called directly, each   *)
(* under a specification of its own (RoundSpec, ParamsSpec, PayloadSpec,   *)
(* StateSpec) that leaves the other objects as they are constructed.       *)
(*                                                                         *)
(* DeploySafeBehaviour of safe_deployment_abci/behaviours.py is modelled   *)
(* as a generator per agent, under DeploySpec.                             *)
(***************************************************************************)
EXTENDS Integers, Sequences, FiniteSets, TLC

\* ---------------------------------------------------------------- bounds
\* calls that return normally or change the Period, after which the driver stops
MaxCalls == 8

\* deliver_tx calls that pass the phase check, per block
MaxDeliveries == 2

\* agents that run the deploy_safe behaviour
MaxAgents == 3

\* payloads applied to a round that is called directly
MaxApplied == 2

\* participant counts are taken up to this far from 0 and from 3 * 2^51
MaxParticipants == 30

\* payload classes that are defined
MaxClasses == 2

\* ---------------------------------------------------------------- values
\* an Optional value is a sequence of length at most one
None == <<>>

Some(x) == <<x>>

Get(opt) == opt[1]

WAITING_FOR_BEGIN_BLOCK == "waiting_for_begin_block"

WAITING_FOR_DELIVER_TX == "waiting_for_deliver_tx"

WAITING_FOR_COMMIT == "waiting_for_commit"

\* payload tags (transaction_type.value) and the transactions built on them
Tags == {"a", "b"}

Transactions ==
    {[payload |-> [transaction_type |-> t, sender |-> "A"], signature |-> "s"] : t \in Tags}

\* a round class is the set of tags it has a check_<tag> method for and the
\* set of tags it has a <tag> method for
RoundClasses ==
    { [checkers |-> {"a", "b"}, handlers |-> {"a", "b"}],
      [checkers |-> {"b"},      handlers |-> {"a"}] }

\* results a round may yield (opaque to the Period)
Results == {"r1", "r2"}

\* what a round's end_block may do: return None, return (result, next_round)
\* with next_round a new round or None, or raise
EndBlockOutcomes ==
    { [kind |-> "none", result |-> "-", next_round |-> None],
      [kind |-> "raise", result |-> "-", next_round |-> None] }
    \cup { [kind |-> "done", result |-> r, next_round |-> n] :
             r \in Results, n \in {None} \cup {Some(c) : c \in RoundClasses} }

\* The names the specification gives to the errors the code raises:
\*   ValueError("cannot accept a '...' request.")               PhaseMismatch
\*   ValueError("period is finished, cannot accept new blocks") PeriodFinished
\*   ValueError("request not recognized")                       UnknownTransactionType
\*   TransactionNotValidError                                   TransactionNotValid
\*   AddBlockError                                              AddBlockError
\*   ValueError("header not set")                               HeaderNotSet
\*   ValueError("current_round not set!")                       CurrentRoundNotSet
\*   AttributeError on a None round                             AttributeError
\*   whatever a round's end_block raises                        RoundError
Ok == "ok"

VARIABLES
    blocks,                      \* Blockchain._blocks
    block_construction_phase,    \* Period._block_construction_phase
    current_header,              \* BlockBuilder._current_header
    current_transactions,        \* BlockBuilder._current_transactions
    current_round,               \* Period._current_round
    previous_rounds,             \* Period._previous_rounds
    round_results,               \* Period._round_results
    rounds_created,              \* number of round objects constructed so far
    calls,                       \* number of calls counted against MaxCalls
    outcome,                     \* the last call: what was called and how it ended
    cycle,                       \* the last accepted begin_block and the deliver_tx calls since
    end_block_calls,             \* invocations of a round's end_block, in order
    commit_failed,               \* whether a commit has raised AddBlockError
    abstract_round,              \* an AbstractRound object called directly
    round_call,                  \* the last direct call on it and how it ended
    consensus_params,            \* a ConsensusParams object, once constructed
    params_call,                 \* the last call on ConsensusParams and how it ended
    transaction_type_to_payload_cls,  \* _MetaPayload.transaction_type_to_payload_cls
    payload_classes,             \* the payload classes created so far, in order
    codec_call,                  \* the last call on the payload classes and how it ended
    period_state,                \* a BasePeriodState object, once constructed
    state_call,                  \* the last call on it and how it ended
    behaviours                   \* the DeploySafeBehaviour object of each agent

\* the objects that are not part of the Period under test
round_vars == << abstract_round, round_call >>

params_vars == << consensus_params, params_call >>

payload_vars == << transaction_type_to_payload_cls, payload_classes, codec_call >>

state_vars == << period_state, state_call >>

behaviour_vars == << behaviours >>

apart_from_period ==
    << round_vars, params_vars, payload_vars, state_vars, behaviour_vars >>

vars ==
    << blocks, block_construction_phase, current_header, current_transactions,
       current_round, previous_rounds, round_results, rounds_created, calls,
       outcome, cycle, end_block_calls, commit_failed, apart_from_period >>

\* the Period's own fields
period ==
    << blocks, block_construction_phase, current_header, current_transactions,
       current_round, previous_rounds, round_results >>

\* the Period and what is recorded of its calls
period_vars ==
    << period, rounds_created, calls, outcome, cycle, end_block_calls, commit_failed >>

\* what a direct call on a round, on ConsensusParams, on the payload classes
\* leaves alone
apart_from_round ==
    << period_vars, params_vars, payload_vars, state_vars, behaviour_vars >>

apart_from_params ==
    << period_vars, round_vars, payload_vars, state_vars, behaviour_vars >>

apart_from_payloads ==
    << period_vars, round_vars, params_vars, state_vars, behaviour_vars >>

apart_from_state ==
    << period_vars, round_vars, params_vars, payload_vars, behaviour_vars >>

\* what a step of a behaviour leaves alone
apart_from_behaviours ==
    << period_vars, round_vars, params_vars, payload_vars, state_vars >>

\* the Period object, as the methods below take and return it
Self ==
    [blocks |-> blocks,
     block_construction_phase |-> block_construction_phase,
     current_header |-> current_header,
     current_transactions |-> current_transactions,
     current_round |-> current_round,
     previous_rounds |-> previous_rounds,
     round_results |-> round_results,
     rounds_created |-> rounds_created]

\* ------------------------------------------------------------ Blockchain
length(bc) == Len(bc)

height(bc) == length(bc) + 1

\* as add_block, appending before the height is checked
add_block_appends_first(bc, block) ==
    IF height(bc) # block.header.height
        THEN [err |-> "AddBlockError", blocks |-> Append(bc, block)]
        ELSE [err |-> Ok, blocks |-> Append(bc, block)]

\* as add_block, rejecting only a height above the expected one
add_block_rejects_above(bc, block) ==
    IF height(bc) < block.header.height
        THEN [err |-> "AddBlockError", blocks |-> bc]
        ELSE [err |-> Ok, blocks |-> Append(bc, block)]

\* as add_block, without the height check
add_block_unchecked(bc, block) ==
    [err |-> Ok, blocks |-> Append(bc, block)]

add_block(bc, block) ==
    IF height(bc) # block.header.height
        THEN [err |-> "AddBlockError", blocks |-> bc]
        ELSE [err |-> Ok, blocks |-> Append(bc, block)]

\* the headers offered to begin_block: the height the chain expects, the one
\* below it and the one above it
Headers ==
    {[height |-> h] : h \in {k \in (height(blocks) - 1)..(height(blocks) + 1) : k >= 1}}

\* ---------------------------------------------------------- BlockBuilder
get_block(header, transactions) ==
    IF header = None
        THEN [err |-> "HeaderNotSet", block |-> None]
        ELSE [err |-> Ok,
              block |-> Some([header |-> Get(header), transactions |-> transactions])]

add_transaction(transactions, tx) == Append(transactions, tx)

\* ---------------------------------------------------------- _MetaPayload
\* A class statement with _MetaPayload as metaclass: whether its module name
\* starts with "packages.", whether ABC is among its bases, its
\* transaction_type attribute (a member of an Enum TransactionType, named by
\* its value) and the names of the keyword arguments its constructor takes
\* besides sender.
ClassStatements ==
    [in_packages : BOOLEAN, abstract : BOOLEAN, transaction_type : Tags,
     fields : {{}, {"x"}}]

\* str() of a member of the Enum
str(transaction_type) ==
    CASE transaction_type = "a" -> "TransactionType.A"
      [] transaction_type = "b" -> "TransactionType.B"

\* a mapping with one more binding
Bind(mapping, key, value) ==
    [k \in DOMAIN mapping \cup {key} |-> IF k = key THEN value ELSE mapping[k]]

\* as validate_transaction_type, accepting every class
validate_transaction_type_unchecked(registry, transaction_type, new_payload_cls) == Ok

\* _validate_transaction_type: how it ends (classes are compared by identity)
validate_transaction_type(registry, transaction_type, new_payload_cls) ==
    IF transaction_type \in DOMAIN registry
        THEN IF new_payload_cls # registry[transaction_type] THEN "DuplicateTag" ELSE Ok
        ELSE Ok

\* lines 97-100 of __new__: validate the tag of the class, then bind it
register(registry, new_cls, transaction_type) ==
    LET valid == validate_transaction_type(registry, str(transaction_type), new_cls) IN
    IF valid # Ok
        THEN [res |-> valid, registry |-> registry]
        ELSE [res |-> Ok, registry |-> Bind(registry, str(transaction_type), new_cls)]

\* __new__: the class object is new (a class is known by its place in
\* classes); a class statement that raises leaves no class behind
MetaPayload_new(registry, classes, statement) ==
    LET new_cls == Len(classes) + 1
        created == Append(classes, statement)
    IN  IF statement.in_packages
            THEN [res |-> Ok, registry |-> registry, classes |-> created]
        ELSE IF statement.abstract
            THEN [res |-> Ok, registry |-> registry, classes |-> created]
        ELSE LET r == register(registry, new_cls, statement.transaction_type) IN
             [res |-> r.res, registry |-> r.registry,
              classes |-> IF r.res = Ok THEN created ELSE classes]

\* ------------------------------------------------------- ConsensusParams
\* A Python int has no fixed width.  One of up to 54 bits is kept as two
\* limbs, hi * Base + lo with 0 <= lo < Base; a negative one has hi < 0.
Base == 2^27

PyInt(hi, lo) == [hi |-> hi + lo \div Base, lo |-> lo % Base]

Times(k, n) == PyInt(k * n.hi, k * n.lo)

Plus(n, k) == PyInt(n.hi, n.lo + k)

Less(a, b) == a.hi < b.hi \/ (a.hi = b.hi /\ a.lo < b.lo)

\* m // 3 and m % 3
DivMod3(m) ==
    LET low == (m.hi % 3) * Base + m.lo IN
    [q |-> PyInt(m.hi \div 3, low \div 3), r |-> low % 3]

\* m / 3 for an int m: the double nearest to the quotient, as its integer part
\* and whether it has a fraction.  A double has 53 significant bits.  Below
\* 2^52 the doubles are at most 1/2 apart, so a quotient q + 1/3 or q + 2/3
\* rounds to a double strictly between q and q + 1.  From 2^52 to 2^53 the
\* doubles are the integers, so q + 1/3 rounds to q and q + 2/3 to q + 1.
\* (Quotients of 2^53 and more are not drawn.)
true_divide_by_3(m) ==
    LET d == DivMod3(m) IN
    IF Less(d.q, PyInt(2^25, 0))
        THEN [floor |-> d.q, fraction |-> d.r # 0]
        ELSE [floor |-> IF d.r = 2 THEN Plus(d.q, 1) ELSE d.q, fraction |-> FALSE]

ceil(x) == IF x.fraction THEN Plus(x.floor, 1) ELSE x.floor

NewConsensusParams(max_participants) == [max_participants |-> max_participants]

two_thirds_threshold(self) == ceil(true_divide_by_3(Times(2, self.max_participants)))

\* from_json: the object it returns, or None with the error of enforce
ConsensusParams_from_json(max_participants) ==
    IF max_participants.hi >= 0
        THEN [res |-> Ok, ret |-> Some(NewConsensusParams(max_participants))]
        ELSE [res |-> "AEAEnforceError", ret |-> None]

\* ------------------------------------------------------- BasePeriodState
\* A name is the sequence of its first character and the rest of it, so the
\* attribute "_participants" is << "_", "p", "articipants" >> and its [1:] is
\* the Tail.  A state class is known by its name and the keyword parameters
\* of its constructor, each of which it keeps in the attribute "_" + name.
participants == << "p", "articipants" >>

safe_contract_address == << "s", "afe_contract_address" >>

unknown_field == << "u", "nknown_field" >>

StateClasses ==
    { [name |-> "BasePeriodState", params |-> {participants}],
      [name |-> "PeriodState", params |-> {participants, safe_contract_address}] }

\* the values of a field (None is a value as any other)
FieldValues == {"None", "v1", "v2"}

\* keyword arguments: a mapping from some names to values
Kwargs(names) == UNION {[keys -> FieldValues] : keys \in SUBSET names}

\* cls(**kwargs): a parameter that is not given is None, a keyword that is
\* no parameter is a TypeError
BasePeriodState_init(cls, kwargs) ==
    IF ~(DOMAIN kwargs \subseteq cls.params)
        THEN [res |-> "TypeError", ret |-> None]
        ELSE [res |-> Ok,
              ret |-> Some([cls |-> cls,
                            dict |-> [attr \in {<< "_" >> \o param : param \in cls.params} |->
                                         IF Tail(attr) \in DOMAIN kwargs
                                             THEN kwargs[Tail(attr)]
                                             ELSE "None"]])]

\* dict.update
dict_update(data, kwargs) ==
    [key \in DOMAIN data \cup DOMAIN kwargs |->
        IF key \in DOMAIN kwargs THEN kwargs[key] ELSE data[key]]

\* {key[1:]: value for key, value in self.__dict__.items()}
without_leading_underscore(dict) ==
    [key \in {Tail(attr) : attr \in DOMAIN dict} |->
        dict[CHOOSE attr \in DOMAIN dict : Tail(attr) = key]]

\* as BasePeriodState_update, with the copied fields laid over the overrides
BasePeriodState_update_copy_last(self, kwargs) ==
    LET data == dict_update(kwargs, without_leading_underscore(self.dict))
        new == BasePeriodState_init(self.cls, data)
    IN  [self |-> self, res |-> new.res, ret |-> new.ret]

\* update: the object it is called on, how the call ends, what it returns
BasePeriodState_update(self, kwargs) ==
    LET data == dict_update(without_leading_underscore(self.dict), kwargs)
        new == BasePeriodState_init(self.cls, data)
    IN  [self |-> self, res |-> new.res, ret |-> new.ret]

\* -------------------------------------------------------------- Serialiser
\* A value that is put on the wire is a string or a mapping from strings to
\* such values.
PyStr(s) == [type |-> "str", v |-> s]

PyDict(mapping) == [type |-> "dict", v |-> mapping]

\* the keys that occur, in their order
KeyOrder == << "payload", "sender", "signature", "transaction_type", "x" >>

\* the canonical encoding of a mapping: its entries in the order of their
\* keys, a nested mapping encoded in the same way
RECURSIVE Serialiser_encode(_)
Serialiser_encode(mapping) ==
    LET keys == SelectSeq(KeyOrder, LAMBDA key : key \in DOMAIN mapping) IN
    [i \in 1..Len(keys) |->
        << keys[i],
           IF mapping[keys[i]].type = "dict"
               THEN [type |-> "dict", v |-> Serialiser_encode(mapping[keys[i]].v)]
               ELSE mapping[keys[i]] >>]

RECURSIVE Serialiser_decode(_)
Serialiser_decode(bytes) ==
    [key \in {bytes[i][1] : i \in DOMAIN bytes} |->
        LET entry == bytes[CHOOSE i \in DOMAIN bytes : bytes[i][1] = key][2] IN
        IF entry.type = "dict"
            THEN [type |-> "dict", v |-> Serialiser_decode(entry.v)]
            ELSE entry]

\* ------------------------------------------- BaseTxPayload and Transaction
\* payload_cls(sender, **data) for a class of classes: the keywords have to be
\* the parameters of its constructor
NewPayload(classes, payload_cls, kwargs) ==
    IF DOMAIN kwargs # {"sender"} \cup classes[payload_cls].fields
        THEN [res |-> "TypeError", ret |-> None]
        ELSE [res |-> Ok,
              ret |-> Some([cls |-> payload_cls, sender |-> kwargs["sender"],
                            data |-> [key \in classes[payload_cls].fields |-> kwargs[key]]])]

BaseTxPayload_json(classes, self) ==
    [key \in {"transaction_type", "sender"} \cup DOMAIN self.data |->
        CASE key = "transaction_type" -> PyStr(str(classes[self.cls].transaction_type))
          [] key = "sender" -> self.sender
          [] OTHER -> self.data[key]]

\* as BaseTxPayload_from_json, leaving the tag among the keywords
BaseTxPayload_from_json_keeps_tag(registry, classes, obj) ==
    IF "transaction_type" \notin DOMAIN obj \/ obj["transaction_type"].v \notin DOMAIN registry
        THEN [res |-> "KeyError", ret |-> None]
        ELSE NewPayload(classes, registry[obj["transaction_type"].v], obj)

\* from_json: str() of the tag, which is a str, is the tag
BaseTxPayload_from_json(registry, classes, obj) ==
    IF "transaction_type" \notin DOMAIN obj
        THEN [res |-> "KeyError", ret |-> None]
        ELSE LET data == [key \in DOMAIN obj \ {"transaction_type"} |-> obj[key]]
                 transaction_type == obj["transaction_type"].v
             IN  IF transaction_type \notin DOMAIN registry
                     THEN [res |-> "KeyError", ret |-> None]
                     ELSE NewPayload(classes, registry[transaction_type], data)

BaseTxPayload_eq(self, other) == self.sender = other.sender /\ self.data = other.data

Transaction_encode(classes, self) ==
    Serialiser_encode(
        [key \in {"payload", "signature"} |->
            IF key = "payload"
                THEN PyDict(BaseTxPayload_json(classes, self.payload))
                ELSE self.signature])

Transaction_decode(registry, classes, obj) ==
    LET data == Serialiser_decode(obj)
        signature == data["signature"]
        payload_dict == data["payload"].v
        payload == BaseTxPayload_from_json(registry, classes, payload_dict)
    IN  IF payload.res # Ok
            THEN [res |-> payload.res, ret |-> None]
            ELSE [res |-> Ok,
                  ret |-> Some([payload |-> Get(payload.ret), signature |-> signature])]

Transaction_eq(self, other) ==
    BaseTxPayload_eq(self.payload, other.payload) /\ self.signature = other.signature

\* --------------------------------------------------------- AbstractRound
NewRound(id, cls) ==
    [round_id |-> id, checkers |-> cls.checkers, handlers |-> cls.handlers,
     applied |-> <<>>]

\* as check_transaction, answering for the checker the round does not have
check_transaction_unrecognised_passes(round, tx, verdict) == verdict

\* verdict is what the tag's checker answers if it is asked
check_transaction(round, tx, verdict) ==
    IF tx.payload.transaction_type \notin round.checkers
        THEN FALSE
        ELSE verdict

\* as process_transaction, without running check_transaction again
process_transaction_skips_check(round, tx, verdict) ==
    IF tx.payload.transaction_type \notin round.handlers
        THEN [err |-> "UnknownTransactionType", round |-> round]
    ELSE [err |-> Ok, round |-> [round EXCEPT !.applied = Append(@, tx.payload)]]

\* applied is the sequence of payloads the round's appliers were invoked with
process_transaction(round, tx, verdict) ==
    IF tx.payload.transaction_type \notin round.handlers
        THEN [err |-> "UnknownTransactionType", round |-> round]
    ELSE IF ~check_transaction(round, tx, verdict)
        THEN [err |-> "TransactionNotValid", round |-> round]
    ELSE [err |-> Ok, round |-> [round EXCEPT !.applied = Append(@, tx.payload)]]

\* ---------------------------------------------------------------- Period
\* How a call ends: the Period it leaves, the error it raises (Ok if none), the
\* value it returns, and what it did on the way: the header it accepted, the
\* delivery it checked, the end_block invocation it made.
Result(self, res, ret) ==
    [self |-> self, res |-> res, ret |-> ret,
     begun |-> None, delivery |-> None, invoked |-> None]

Bool(b) == IF b THEN "True" ELSE "False"

\* as is_finished, telling a Period that has not started from one that has ended
is_finished_after_rounds(self) ==
    self.current_round = None /\ self.previous_rounds # <<>>

is_finished(self) == self.current_round = None

Period_setup(self, cls) ==
    Result([self EXCEPT !.current_round = Some(NewRound(self.rounds_created + 1, cls)),
                        !.rounds_created = @ + 1],
           Ok, "None")

\* as Period_begin_block, without the phase check
Period_begin_block_any_phase(self, header) ==
    IF is_finished(self)
        THEN Result(self, "PeriodFinished", "-")
    ELSE [Result([self EXCEPT !.block_construction_phase = WAITING_FOR_DELIVER_TX,
                              !.current_transactions = <<>>,
                              !.current_header = Some(header)],
                 Ok, "None")
          EXCEPT !.begun = Some(header)]

\* as Period_begin_block, without the is_finished check
Period_begin_block_when_finished(self, header) ==
    IF self.block_construction_phase # WAITING_FOR_BEGIN_BLOCK
        THEN Result(self, "PhaseMismatch", "-")
    ELSE [Result([self EXCEPT !.block_construction_phase = WAITING_FOR_DELIVER_TX,
                              !.current_transactions = <<>>,
                              !.current_header = Some(header)],
                 Ok, "None")
          EXCEPT !.begun = Some(header)]

\* as Period_begin_block, without self._block_builder.reset()
Period_begin_block_without_reset(self, header) ==
    IF is_finished(self)
        THEN Result(self, "PeriodFinished", "-")
    ELSE IF self.block_construction_phase # WAITING_FOR_BEGIN_BLOCK
        THEN Result(self, "PhaseMismatch", "-")
    ELSE [Result([self EXCEPT !.block_construction_phase = WAITING_FOR_DELIVER_TX,
                              !.current_header = Some(header)],
                 Ok, "None")
          EXCEPT !.begun = Some(header)]

Period_begin_block(self, header) ==
    IF is_finished(self)
        THEN Result(self, "PeriodFinished", "-")
    ELSE IF self.block_construction_phase # WAITING_FOR_BEGIN_BLOCK
        THEN Result(self, "PhaseMismatch", "-")
    ELSE [Result([self EXCEPT !.block_construction_phase = WAITING_FOR_DELIVER_TX,
                              !.current_transactions = <<>>,
                              !.current_header = Some(header)],
                 Ok, "None")
          EXCEPT !.begun = Some(header)]

\* as Period_deliver_tx, with the transaction added to the block whatever the
\* check answered
Period_deliver_tx_adds_unchecked(self, transaction, verdict1, verdict2) ==
    IF self.block_construction_phase # WAITING_FOR_DELIVER_TX
        THEN Result(self, "PhaseMismatch", "-")
    ELSE IF self.current_round = None
        THEN Result(self, "AttributeError", "-")
    ELSE
        LET is_valid == check_transaction(Get(self.current_round), transaction, verdict1)
            processed == process_transaction(Get(self.current_round), transaction, verdict2)
            Checked(r) ==
                [r EXCEPT !.delivery =
                    Some([tx |-> transaction, valid |-> Bool(is_valid),
                          ret |-> IF r.res = Ok THEN r.ret ELSE r.res])]
        IN  IF ~is_valid
                THEN Checked(Result(
                         [self EXCEPT !.current_transactions =
                                          add_transaction(@, transaction)],
                         Ok, Bool(is_valid)))
            ELSE IF processed.err # Ok
                THEN Checked(Result(self, processed.err, "-"))
            ELSE Checked(Result(
                     [self EXCEPT !.current_round = Some(processed.round),
                                  !.current_transactions =
                                      add_transaction(@, transaction)],
                     Ok, Bool(is_valid)))

\* as Period_deliver_tx, with the transaction added to the block before it is
\* processed
Period_deliver_tx_adds_before_process(self, transaction, verdict1, verdict2) ==
    IF self.block_construction_phase # WAITING_FOR_DELIVER_TX
        THEN Result(self, "PhaseMismatch", "-")
    ELSE IF self.current_round = None
        THEN Result(self, "AttributeError", "-")
    ELSE
        LET is_valid == check_transaction(Get(self.current_round), transaction, verdict1)
            processed == process_transaction(Get(self.current_round), transaction, verdict2)
            added == [self EXCEPT !.current_transactions = add_transaction(@, transaction)]
            Checked(r) ==
                [r EXCEPT !.delivery =
                    Some([tx |-> transaction, valid |-> Bool(is_valid),
                          ret |-> IF r.res = Ok THEN r.ret ELSE r.res])]
        IN  IF ~is_valid
                THEN Checked(Result(self, Ok, Bool(is_valid)))
            ELSE IF processed.err # Ok
                THEN Checked(Result(added, processed.err, "-"))
            ELSE Checked(Result([added EXCEPT !.current_round = Some(processed.round)],
                                Ok, Bool(is_valid)))

\* verdict1 is the checker's answer to deliver_tx's own check, verdict2 its
\* answer to the check process_transaction runs again
Period_deliver_tx(self, transaction, verdict1, verdict2) ==
    IF self.block_construction_phase # WAITING_FOR_DELIVER_TX
        THEN Result(self, "PhaseMismatch", "-")
    ELSE IF self.current_round = None
        THEN Result(self, "AttributeError", "-")
    ELSE
        LET is_valid == check_transaction(Get(self.current_round), transaction, verdict1)
            processed == process_transaction(Get(self.current_round), transaction, verdict2)
            Checked(r) ==
                [r EXCEPT !.delivery =
                    Some([tx |-> transaction, valid |-> Bool(is_valid),
                          ret |-> IF r.res = Ok THEN r.ret ELSE r.res])]
        IN  IF ~is_valid
                THEN Checked(Result(self, Ok, Bool(is_valid)))
            ELSE IF processed.err # Ok
                THEN Checked(Result(self, processed.err, "-"))
            ELSE Checked(Result(
                     [self EXCEPT !.current_round = Some(processed.round),
                                  !.current_transactions =
                                      add_transaction(@, transaction)],
                     Ok, Bool(is_valid)))

\* as Period_end_block, reopening the phase for the next block at once
Period_end_block_skips_commit(self) ==
    IF self.block_construction_phase # WAITING_FOR_DELIVER_TX
        THEN Result(self, "PhaseMismatch", "-")
    ELSE Result([self EXCEPT !.block_construction_phase = WAITING_FOR_BEGIN_BLOCK],
                Ok, "None")

\* as Period_end_block, without the phase check
Period_end_block_any_phase(self) ==
    Result([self EXCEPT !.block_construction_phase = WAITING_FOR_COMMIT], Ok, "None")

\* as Period_end_block, appending the built block to the chain at once
Period_end_block_appends(self) ==
    IF self.block_construction_phase # WAITING_FOR_DELIVER_TX
        THEN Result(self, "PhaseMismatch", "-")
    ELSE Result([self EXCEPT
                    !.block_construction_phase = WAITING_FOR_COMMIT,
                    !.blocks = Append(@, [header |-> Get(self.current_header),
                                          transactions |-> self.current_transactions])],
                Ok, "None")

\* as Period_end_block, asking the current round whether it has ended
Period_end_block_invokes_round(self) ==
    IF self.block_construction_phase # WAITING_FOR_DELIVER_TX
        THEN Result(self, "PhaseMismatch", "-")
    ELSE [Result([self EXCEPT !.block_construction_phase = WAITING_FOR_COMMIT],
                 Ok, "None")
          EXCEPT !.invoked =
              Some([round_id |-> Get(self.current_round).round_id,
                    at |-> length(self.blocks),
                    kind |-> "none",
                    result |-> "-",
                    next_round |-> None])]

Period_end_block(self) ==
    IF self.block_construction_phase # WAITING_FOR_DELIVER_TX
        THEN Result(self, "PhaseMismatch", "-")
    ELSE Result([self EXCEPT !.block_construction_phase = WAITING_FOR_COMMIT], Ok, "None")

\* as update_round, without installing the successor
update_round_keeps_round(self, returned) ==
    IF returned.kind = "none"
        THEN self
        ELSE [self EXCEPT
                 !.previous_rounds = Append(@, Get(self.current_round)),
                 !.round_results = Append(@, returned.result)]

\* as update_round, recording no result when the period ends
update_round_skips_last_result(self, returned) ==
    IF returned.kind = "none"
        THEN self
        ELSE [self EXCEPT
                 !.previous_rounds = Append(@, Get(self.current_round)),
                 !.round_results =
                     IF returned.next_round = None THEN @ ELSE Append(@, returned.result),
                 !.current_round = returned.next_round]

\* returned is what the current round's end_block returned: kind "none" for
\* None, kind "done" for (result, next_round)
update_round(self, returned) ==
    IF returned.kind = "none"
        THEN self
        ELSE [self EXCEPT
                 !.previous_rounds = Append(@, Get(self.current_round)),
                 !.round_results = Append(@, returned.result),
                 !.current_round = returned.next_round]

\* as Period_commit, with the phase reopened for the next block also when
\* add_block raises
Period_commit_reopens_on_error(self, eb) ==
    IF self.block_construction_phase # WAITING_FOR_COMMIT
        THEN Result(self, "PhaseMismatch", "-")
    ELSE LET built == get_block(self.current_header, self.current_transactions) IN
    IF built.err # Ok
        THEN Result(self, built.err, "-")
    ELSE LET added == add_block(self.blocks, Get(built.block))
             appended == [self EXCEPT !.blocks = added.blocks] IN
    IF added.err # Ok
        THEN Result([appended EXCEPT !.block_construction_phase = WAITING_FOR_BEGIN_BLOCK],
                    added.err, "-")
    ELSE IF appended.current_round = None
        THEN Result(appended, "CurrentRoundNotSet", "-")
    ELSE LET returned ==
                 [kind |-> eb.kind,
                  result |-> eb.result,
                  next_round |->
                      IF eb.next_round = None THEN None
                      ELSE Some(NewRound(self.rounds_created + 1, Get(eb.next_round)))]
             constructed ==
                 [appended EXCEPT !.rounds_created =
                                      IF eb.next_round = None THEN @ ELSE @ + 1]
             Invoked(r) ==
                 [r EXCEPT !.invoked =
                     Some([round_id |-> Get(appended.current_round).round_id,
                           at |-> length(appended.blocks),
                           kind |-> returned.kind,
                           result |-> returned.result,
                           next_round |-> returned.next_round])]
         IN  IF eb.kind = "raise"
                 THEN Invoked(Result(appended, "RoundError", "-"))
                 ELSE Invoked(Result(
                          [update_round(constructed, returned) EXCEPT
                              !.block_construction_phase = WAITING_FOR_BEGIN_BLOCK],
                          Ok, "None"))

\* as Period_commit, with the round asked before the block is added, so that
\* a round that raises leaves the chain as it was
Period_commit_round_first(self, eb) ==
    IF self.block_construction_phase # WAITING_FOR_COMMIT
        THEN Result(self, "PhaseMismatch", "-")
    ELSE LET built == get_block(self.current_header, self.current_transactions) IN
    IF built.err # Ok
        THEN Result(self, built.err, "-")
    ELSE LET added == add_block(self.blocks, Get(built.block))
             appended == [self EXCEPT !.blocks = added.blocks] IN
    IF added.err # Ok
        THEN Result(appended, added.err, "-")
    ELSE IF appended.current_round = None
        THEN Result(appended, "CurrentRoundNotSet", "-")
    ELSE LET returned ==
                 [kind |-> eb.kind,
                  result |-> eb.result,
                  next_round |->
                      IF eb.next_round = None THEN None
                      ELSE Some(NewRound(self.rounds_created + 1, Get(eb.next_round)))]
             constructed ==
                 [appended EXCEPT !.rounds_created =
                                      IF eb.next_round = None THEN @ ELSE @ + 1]
             Invoked(r) ==
                 [r EXCEPT !.invoked =
                     Some([round_id |-> Get(appended.current_round).round_id,
                           at |-> length(appended.blocks),
                           kind |-> returned.kind,
                           result |-> returned.result,
                           next_round |-> returned.next_round])]
         IN  IF eb.kind = "raise"
                 THEN Invoked(Result(self, "RoundError", "-"))
                 ELSE Invoked(Result(
                          [update_round(constructed, returned) EXCEPT
                              !.block_construction_phase = WAITING_FOR_BEGIN_BLOCK],
                          Ok, "None"))

\* eb is what the current round's end_block does when it is invoked; a round
\* it returns as the successor is a new round object
Period_commit(self, eb) ==
    IF self.block_construction_phase # WAITING_FOR_COMMIT
        THEN Result(self, "PhaseMismatch", "-")
    ELSE LET built == get_block(self.current_header, self.current_transactions) IN
    IF built.err # Ok
        THEN Result(self, built.err, "-")
    ELSE LET added == add_block(self.blocks, Get(built.block))
             appended == [self EXCEPT !.blocks = added.blocks] IN
    IF added.err # Ok
        THEN Result(appended, added.err, "-")
    ELSE IF appended.current_round = None
        THEN Result(appended, "CurrentRoundNotSet", "-")
    ELSE LET returned ==
                 [kind |-> eb.kind,
                  result |-> eb.result,
                  next_round |->
                      IF eb.next_round = None THEN None
                      ELSE Some(NewRound(self.rounds_created + 1, Get(eb.next_round)))]
             constructed ==
                 [appended EXCEPT !.rounds_created =
                                      IF eb.next_round = None THEN @ ELSE @ + 1]
             Invoked(r) ==
                 [r EXCEPT !.invoked =
                     Some([round_id |-> Get(appended.current_round).round_id,
                           at |-> length(appended.blocks),
                           kind |-> returned.kind,
                           result |-> returned.result,
                           next_round |-> returned.next_round])]
         IN  IF eb.kind = "raise"
                 THEN Invoked(Result(appended, "RoundError", "-"))
                 ELSE Invoked(Result(
                          [update_round(constructed, returned) EXCEPT
                              !.block_construction_phase = WAITING_FOR_BEGIN_BLOCK],
                          Ok, "None"))

\* ------------------------------------------------------------- the driver
\* no round is called directly
NoRoundCalls ==
    /\ abstract_round = NewRound("-", [checkers |-> {}, handlers |-> {}])
    /\ round_call = [op |-> "init", tx |-> None, verdict |-> FALSE, res |-> Ok, ret |-> "None"]

\* no ConsensusParams object is constructed
NoParams ==
    /\ consensus_params = None
    /\ params_call = [op |-> "init", res |-> Ok, ret |-> None]

\* no payload class is defined
NoPayloadClasses ==
    /\ transaction_type_to_payload_cls = <<>>
    /\ payload_classes = <<>>
    /\ codec_call = [op |-> "init", res |-> Ok, cls |-> 0, transaction_type |-> "-",
                     tx |-> None, decoded |-> None]

\* no period state is constructed
NoPeriodState ==
    /\ period_state = None
    /\ state_call = [op |-> "init", res |-> Ok, kwargs |-> <<>>, ret |-> None]

\* no agent runs a behaviour
NoBehaviours == behaviours = <<>>

\* a Period after construction, before setup
NewPeriod ==
    /\ blocks = <<>>
    /\ block_construction_phase = WAITING_FOR_BEGIN_BLOCK
    /\ current_header = None
    /\ current_transactions = <<>>
    /\ current_round = None
    /\ previous_rounds = <<>>
    /\ round_results = <<>>
    /\ rounds_created = 0
    /\ calls = 0
    /\ outcome = [op |-> "init", res |-> Ok, ret |-> "None"]
    /\ cycle = [header |-> None, deliveries |-> <<>>]
    /\ end_block_calls = <<>>
    /\ commit_failed = FALSE

Init == NewPeriod /\ NoRoundCalls /\ NoParams /\ NoPayloadClasses /\ NoPeriodState
    /\ NoBehaviours

\* a call that was rejected before it did anything is not counted against MaxCalls
Counted(r) == r.res = Ok \/ r.self # Self \/ r.delivery # None

\* the call op ends as r
Do(op, r) ==
    /\ Counted(r) => calls < MaxCalls
    /\ r.delivery # None => Len(cycle.deliveries) < MaxDeliveries
    /\ calls' = IF Counted(r) THEN calls + 1 ELSE calls
    /\ blocks' = r.self.blocks
    /\ block_construction_phase' = r.self.block_construction_phase
    /\ current_header' = r.self.current_header
    /\ current_transactions' = r.self.current_transactions
    /\ current_round' = r.self.current_round
    /\ previous_rounds' = r.self.previous_rounds
    /\ round_results' = r.self.round_results
    /\ rounds_created' = r.self.rounds_created
    /\ outcome' = [op |-> op, res |-> r.res, ret |-> r.ret]
    /\ cycle' =
           IF r.begun # None THEN [header |-> r.begun, deliveries |-> <<>>]
           ELSE IF r.delivery # None
               THEN [cycle EXCEPT !.deliveries = Append(@, Get(r.delivery))]
           ELSE cycle
    /\ end_block_calls' =
           IF r.invoked # None THEN Append(end_block_calls, Get(r.invoked))
           ELSE end_block_calls
    /\ commit_failed' = (commit_failed \/ (op = "commit" /\ r.res = "AddBlockError"))
    /\ UNCHANGED apart_from_period

setup(cls) == Do("setup", Period_setup(Self, cls))

begin_block(header) == Do("begin_block", Period_begin_block(Self, header))

deliver_tx(transaction, verdict1, verdict2) ==
    Do("deliver_tx", Period_deliver_tx(Self, transaction, verdict1, verdict2))

end_block == Do("end_block", Period_end_block(Self))

commit(eb) == Do("commit", Period_commit(Self, eb))

Next ==
    \/ \E cls \in RoundClasses : setup(cls)
    \/ \E header \in Headers : begin_block(header)
    \/ \E transaction \in Transactions, verdict1 \in BOOLEAN, verdict2 \in BOOLEAN :
           deliver_tx(transaction, verdict1, verdict2)
    \/ end_block
    \/ \E eb \in EndBlockOutcomes : commit(eb)

Spec == Init /\ [][Next]_vars

\* ------------------------------------------- a round that is called directly
Senders == {"A", "B"}

SignedTransactions ==
    {[payload |-> [transaction_type |-> t, sender |-> a], signature |-> "s"] :
        t \in Tags, a \in Senders}

\* a round class may have any of the check_<tag> and <tag> methods
AnyRoundClasses ==
    {[checkers |-> c, handlers |-> h] : c \in SUBSET Tags, h \in SUBSET Tags}

RoundInit ==
    /\ NewPeriod
    /\ NoParams
    /\ NoPayloadClasses
    /\ NoPeriodState
    /\ NoBehaviours
    /\ \E cls \in AnyRoundClasses : abstract_round = NewRound("round", cls)
    /\ round_call = [op |-> "init", tx |-> None, verdict |-> FALSE, res |-> Ok, ret |-> "None"]

call_check_transaction(tx, verdict) ==
    /\ round_call' = [op |-> "check_transaction", tx |-> Some(tx), verdict |-> verdict,
                      res |-> Ok,
                      ret |-> Bool(check_transaction(abstract_round, tx, verdict))]
    /\ UNCHANGED << abstract_round, apart_from_round >>

call_process_transaction(tx, verdict) ==
    LET r == process_transaction(abstract_round, tx, verdict) IN
    /\ r.err = Ok => Len(abstract_round.applied) < MaxApplied
    /\ abstract_round' = r.round
    /\ round_call' = [op |-> "process_transaction", tx |-> Some(tx), verdict |-> verdict,
                      res |-> r.err, ret |-> "None"]
    /\ UNCHANGED apart_from_round

RoundNext ==
    \/ \E tx \in SignedTransactions, verdict \in BOOLEAN : call_check_transaction(tx, verdict)
    \/ \E tx \in SignedTransactions, verdict \in BOOLEAN : call_process_transaction(tx, verdict)

RoundSpec == RoundInit /\ [][RoundNext]_vars

\* ------------------------------------------------------------ the claims
EntryPoints == {"begin_block", "deliver_tx", "end_block", "commit"}

\* in a step: the call made was op / was op and returned normally
Called(op) == outcome'.op = op

Succeeded(op) == outcome'.op = op /\ outcome'.res = Ok

Last(seq) == seq[Len(seq)]

\* the last call was a commit that returned normally
Committed == outcome.op = "commit" /\ outcome.res = Ok

\* C1: the phase starts at WAITING_FOR_BEGIN_BLOCK and changes only along the
\* cycle: a successful begin_block moves it from WAITING_FOR_BEGIN_BLOCK to
\* WAITING_FOR_DELIVER_TX, a successful end_block from there to
\* WAITING_FOR_COMMIT, a successful commit from there back to
\* WAITING_FOR_BEGIN_BLOCK, deliver_tx never changes it and nothing else does;
\* so in WAITING_FOR_DELIVER_TX the only entry points that can succeed are
\* deliver_tx and end_block.
C1_PhaseCycle ==
    /\ block_construction_phase = WAITING_FOR_BEGIN_BLOCK
    /\ [][ /\ Succeeded("begin_block") =>
                /\ block_construction_phase = WAITING_FOR_BEGIN_BLOCK
                /\ block_construction_phase' = WAITING_FOR_DELIVER_TX
           /\ Succeeded("end_block") =>
                /\ block_construction_phase = WAITING_FOR_DELIVER_TX
                /\ block_construction_phase' = WAITING_FOR_COMMIT
           /\ Succeeded("commit") =>
                /\ block_construction_phase = WAITING_FOR_COMMIT
                /\ block_construction_phase' = WAITING_FOR_BEGIN_BLOCK
           /\ Called("deliver_tx") =>
                block_construction_phase' = block_construction_phase
           /\ block_construction_phase' # block_construction_phase =>
                Succeeded("begin_block") \/ Succeeded("end_block") \/ Succeeded("commit")
           /\ ( /\ block_construction_phase = WAITING_FOR_DELIVER_TX
                /\ outcome'.op \in EntryPoints
                /\ outcome'.res = Ok ) =>
                outcome'.op \in {"deliver_tx", "end_block"}
         ]_vars

\* two blocks have gone round the whole cycle
C1_Witness ==
    /\ Committed
    /\ Len(blocks) = 2
    /\ block_construction_phase = WAITING_FOR_BEGIN_BLOCK

\* how often x occurs in seq
Count(x, seq) == Cardinality({i \in 1..Len(seq) : seq[i] = x})

\* how many deliveries of tx in this block's cycle the round's check accepted
ValidDeliveries(tx) ==
    Cardinality({i \in 1..Len(cycle.deliveries) :
                    cycle.deliveries[i].tx = tx /\ cycle.deliveries[i].valid = "True"})

\* the delivery made in this step, if the step is a deliver_tx that got to the check
Delivered == Called("deliver_tx") /\ Len(cycle'.deliveries) = Len(cycle.deliveries) + 1

\* C2: a delivery the round's check_transaction answers false to returns false,
\* does not invoke the round's applier, is not added to the block under
\* construction, and does not appear in the block the cycle commits: the block
\* holds a transaction at most as often as the check accepted it.
C2_RejectedNeverApplied ==
    /\ [][ (Delivered /\ Last(cycle'.deliveries).valid = "False") =>
                /\ outcome'.res = Ok
                /\ outcome'.ret = "False"
                /\ current_round' = current_round
                /\ current_transactions' = current_transactions
         ]_vars
    /\ [](Committed =>
            \A tx \in Transactions :
                Count(tx, Last(blocks).transactions) <= ValidDeliveries(tx))

\* a block was committed after a cycle with one rejected and one accepted delivery
C2_Witness ==
    /\ Committed
    /\ Len(cycle.deliveries) = 2
    /\ cycle.deliveries[1].valid = "False"
    /\ cycle.deliveries[2].ret = "True"
    /\ Last(blocks).transactions = << cycle.deliveries[2].tx >>

\* the transactions of the deliveries that returned true, in delivery order
RECURSIVE Accepted(_)
Accepted(deliveries) ==
    IF deliveries = <<>> THEN <<>>
    ELSE IF deliveries[1].ret = "True"
        THEN << deliveries[1].tx >> \o Accepted(Tail(deliveries))
        ELSE Accepted(Tail(deliveries))

\* C3: the block a successful commit appends carries the header given to the
\* matching begin_block and exactly the transactions whose deliver_tx returned
\* true since then, in delivery order, with nothing left over from an earlier
\* block.
C3_BlockIsWhatWasDelivered ==
    Committed =>
        /\ blocks # <<>>
        /\ cycle.header # None
        /\ Last(blocks).header = Get(cycle.header)
        /\ Last(blocks).transactions = Accepted(cycle.deliveries)

\* after a block with a transaction, a second block was committed for which
\* nothing was delivered, and it is empty
C3_Witness ==
    /\ Committed
    /\ Len(blocks) = 2
    /\ blocks[1].transactions # <<>>
    /\ cycle.deliveries = <<>>
    /\ blocks[2].transactions = <<>>

\* a call in the wrong phase: PhaseMismatch, and the Period is as it was
Rejected == outcome'.res = "PhaseMismatch" /\ period' = period

\* C4: begin_block outside WAITING_FOR_BEGIN_BLOCK, deliver_tx or end_block
\* outside WAITING_FOR_DELIVER_TX and commit outside WAITING_FOR_COMMIT fail
\* with PhaseMismatch and leave the phase, the builder, the chain, the current
\* round and both histories unchanged.
C4_WrongPhaseRejected ==
    [][ /\ ( /\ Called("begin_block")
             /\ block_construction_phase # WAITING_FOR_BEGIN_BLOCK ) => Rejected
        /\ ( /\ Called("deliver_tx")
             /\ block_construction_phase # WAITING_FOR_DELIVER_TX ) => Rejected
        /\ ( /\ Called("end_block")
             /\ block_construction_phase # WAITING_FOR_DELIVER_TX ) => Rejected
        /\ ( /\ Called("commit")
             /\ block_construction_phase # WAITING_FOR_COMMIT ) => Rejected
      ]_vars

\* begin_block was rejected while a block with a transaction was waiting for
\* its commit
C4_Witness ==
    /\ outcome.op = "begin_block"
    /\ outcome.res = "PhaseMismatch"
    /\ block_construction_phase = WAITING_FOR_COMMIT
    /\ current_transactions # <<>>

\* the step is a commit that appended its block and invoked end_block
CommitAppended ==
    /\ Called("commit")
    /\ Len(blocks') = Len(blocks) + 1
    /\ Len(end_block_calls') = Len(end_block_calls) + 1

\* C5: at a commit whose block is appended, if the round's end_block returns
\* None the current round and both histories are unchanged; if it returns
\* (result, next_round) the current round is appended to previous_rounds,
\* result to round_results, and next_round becomes the current round.
C5_UpdateRound ==
    [][ CommitAppended =>
          LET e == Last(end_block_calls') IN
          /\ e.kind = "none" =>
                /\ current_round' = current_round
                /\ previous_rounds' = previous_rounds
                /\ round_results' = round_results
          /\ e.kind = "done" =>
                /\ previous_rounds' = Append(previous_rounds, Get(current_round))
                /\ round_results' = Append(round_results, e.result)
                /\ current_round' = e.next_round
      ]_vars

\* a commit replaced the first round by the successor its end_block returned
C5_Witness ==
    /\ Committed
    /\ Last(end_block_calls).kind = "done"
    /\ Last(end_block_calls).next_round # None
    /\ current_round = Last(end_block_calls).next_round
    /\ Len(previous_rounds) = 1
    /\ previous_rounds[1].round_id = Last(end_block_calls).round_id

\* a commit has installed "no further rounds" and setup was not called since
Terminated == current_round = None /\ end_block_calls # <<>>

\* C6: a commit whose round returns next_round None leaves the period
\* finished; from then on begin_block fails with PeriodFinished and changes
\* nothing, and until setup is called again the period stays finished, no
\* block is begun and the chain does not grow.
C6_FinishedStaysFinished ==
    [][ /\ ( /\ CommitAppended
             /\ Last(end_block_calls').kind = "done"
             /\ Last(end_block_calls').next_round = None ) => current_round' = None
        /\ ( Terminated /\ Called("begin_block") ) =>
                /\ outcome'.res = "PeriodFinished"
                /\ period' = period
        /\ ( Terminated /\ ~Called("setup") ) =>
                /\ current_round' = None
                /\ blocks' = blocks
                /\ block_construction_phase' = block_construction_phase
      ]_vars

\* begin_block was refused on a period that a commit had finished
C6_Witness ==
    /\ Terminated
    /\ outcome.op = "begin_block"
    /\ outcome.res = "PeriodFinished"
    /\ Last(end_block_calls).next_round = None
    /\ Last(end_block_calls).kind = "done"

\* C7: a commit whose built block's header.height differs from the chain's
\* height raises AddBlockError and leaves the phase at WAITING_FOR_COMMIT,
\* the chain, the current round and both histories unchanged, without
\* invoking end_block; begin_block itself accepts any height.
C7_WrongHeightFailsAtCommit ==
    [][ /\ ( /\ Called("commit")
             /\ block_construction_phase = WAITING_FOR_COMMIT
             /\ current_header # None
             /\ Get(current_header).height # height(blocks) ) =>
                /\ outcome'.res = "AddBlockError"
                /\ block_construction_phase' = WAITING_FOR_COMMIT
                /\ period' = period
                /\ end_block_calls' = end_block_calls
        /\ ( /\ Called("begin_block")
             /\ block_construction_phase = WAITING_FOR_BEGIN_BLOCK
             /\ current_round # None ) =>
                /\ outcome'.res = Ok
                /\ current_header' # None
                /\ Get(current_header') \in Headers
      ]_vars

\* after one committed block, a block begun with height 3 failed at its commit
C7_Witness ==
    /\ outcome.op = "commit"
    /\ outcome.res = "AddBlockError"
    /\ Len(blocks) = 1
    /\ current_header # None
    /\ Get(current_header).height = Len(blocks) + 2
    /\ block_construction_phase = WAITING_FOR_COMMIT

\* the end_block invocations that ended their round, in order
RECURSIVE Terminations(_)
Terminations(invocations) ==
    IF invocations = <<>> THEN <<>>
    ELSE IF invocations[1].kind = "done"
        THEN << invocations[1] >> \o Terminations(Tail(invocations))
        ELSE Terminations(Tail(invocations))

\* C8: previous_rounds and round_results have the same length, a commit grows
\* both by 0 or both by 1, round_results[i] is the result previous_rounds[i]
\* returned from its end_block, and previous_rounds[i+1] terminated at a later
\* commit than previous_rounds[i].
C8_HistoriesInLockstep ==
    /\ [](LET done == Terminations(end_block_calls) IN
          /\ Len(previous_rounds) = Len(round_results)
          /\ Len(previous_rounds) = Len(done)
          /\ \A i \in 1..Len(previous_rounds) :
                /\ done[i].round_id = previous_rounds[i].round_id
                /\ done[i].result = round_results[i]
                /\ i > 1 => done[i].at > done[i - 1].at)
    /\ [][ Called("commit") =>
             /\ Len(previous_rounds') - Len(previous_rounds) \in {0, 1}
             /\ Len(round_results') - Len(round_results)
                    = Len(previous_rounds') - Len(previous_rounds)
         ]_vars

\* two rounds have terminated, with different results, and the period is over
C8_Witness ==
    /\ Len(previous_rounds) = 2
    /\ round_results[1] # round_results[2]
    /\ current_round = None

\* C9: add_block appends the block if and only if its header.height equals
\* the chain's height (length + 1); for any other height, above or below, it
\* raises AddBlockError and leaves the chain unchanged.
C9_AddBlockChecksHeight ==
    [][ ( /\ Called("commit")
          /\ block_construction_phase = WAITING_FOR_COMMIT
          /\ current_header # None ) =>
            LET block == [header |-> Get(current_header),
                          transactions |-> current_transactions]
            IN  IF block.header.height = Len(blocks) + 1
                    THEN blocks' = Append(blocks, block) /\ outcome'.res # "AddBlockError"
                    ELSE blocks' = blocks /\ outcome'.res = "AddBlockError"
      ]_vars

\* a block below the chain's height was refused
C9_Witness ==
    /\ outcome.op = "commit"
    /\ outcome.res = "AddBlockError"
    /\ current_header # None
    /\ Get(current_header).height < height(blocks)

\* C10: after n appends the chain has length n and height n + 1 and its k-th
\* block has header.height k.  Every append is followed by one invocation of
\* the round's end_block, so the invocations count the appends.
C10_HeightsAscend ==
    /\ length(blocks) = Len(end_block_calls)
    /\ height(blocks) = Len(end_block_calls) + 1
    /\ \A k \in 1..Len(blocks) : blocks[k].header.height = k

\* two blocks were appended
C10_Witness == Len(blocks) = 2 /\ Len(end_block_calls) = 2

\* C11: begin_block, deliver_tx and end_block never change the chain, whether
\* they succeed or fail; the chain changes only by a commit appending one
\* block to it.
C11_OnlyCommitAppends ==
    [][ /\ ( Called("begin_block") \/ Called("deliver_tx") \/ Called("end_block") ) =>
                blocks' = blocks
        /\ blocks' # blocks =>
                /\ Called("commit")
                /\ Len(blocks') = Len(blocks) + 1
                /\ SubSeq(blocks', 1, Len(blocks)) = blocks
      ]_vars

\* a second block with a transaction waits for its commit and the chain still
\* holds the first block alone
C11_Witness ==
    /\ block_construction_phase = WAITING_FOR_COMMIT
    /\ outcome.op = "end_block"
    /\ current_transactions # <<>>
    /\ Len(blocks) = 1

\* C12: a round's end_block is invoked only by commit, after that commit has
\* appended its block, and at most once per block: the invocations are made
\* at strictly growing chain lengths, on blocks of strictly growing height.
C12_EndBlockOncePerBlock ==
    /\ [][ end_block_calls' # end_block_calls =>
             /\ Called("commit")
             /\ Len(end_block_calls') = Len(end_block_calls) + 1
             /\ SubSeq(end_block_calls', 1, Len(end_block_calls)) = end_block_calls
             /\ blocks' = Append(blocks, [header |-> Get(current_header),
                                          transactions |-> current_transactions])
             /\ Last(end_block_calls').at = Len(blocks')
         ]_vars
    /\ [](\A i, j \in 1..Len(end_block_calls) :
             i < j =>
                /\ end_block_calls[i].at < end_block_calls[j].at
                /\ end_block_calls[j].at <= Len(blocks)
                /\ blocks[end_block_calls[i].at].header.height
                       < blocks[end_block_calls[j].at].header.height)

\* the round's end_block raised at a commit, and the commit tried again was
\* refused before it reached the round
C12_Witness ==
    /\ outcome.op = "commit"
    /\ outcome.res = "AddBlockError"
    /\ Len(end_block_calls) = 1
    /\ Last(end_block_calls).kind = "raise"
    /\ Len(blocks) = 1

Phases == {WAITING_FOR_BEGIN_BLOCK, WAITING_FOR_DELIVER_TX, WAITING_FOR_COMMIT}

\* the phase each entry point is admitted in
Matching ==
    { <<"begin_block", WAITING_FOR_BEGIN_BLOCK>>,
      <<"deliver_tx", WAITING_FOR_DELIVER_TX>>,
      <<"end_block", WAITING_FOR_DELIVER_TX>>,
      <<"commit", WAITING_FOR_COMMIT>> }

NonMatching == (EntryPoints \X Phases) \ Matching

\* how the entry point op may end when it is called now, over all its inputs
Endings(op) ==
    CASE op = "begin_block" ->
            {Period_begin_block(Self, header).res : header \in Headers}
      [] op = "deliver_tx" ->
            {Period_deliver_tx(Self, tx, v1, v2).res :
                tx \in Transactions, v1 \in BOOLEAN, v2 \in BOOLEAN}
      [] op = "end_block" ->
            {Period_end_block(Self).res}
      [] op = "commit" ->
            {Period_commit(Self, eb).res : eb \in EndBlockOutcomes}

\* on a set-up, unfinished Period an entry point is rejected for its phase
\* exactly in the combinations of NonMatching
RejectedExactlyWhenNonMatching ==
    current_round # None =>
        \A op \in EntryPoints :
            IF <<op, block_construction_phase>> \in NonMatching
                THEN Endings(op) = {"PhaseMismatch"}
                ELSE "PhaseMismatch" \notin Endings(op)

\* C18 as stated: each entry point rejects every non-matching phase, and of
\* the 12 combinations of entry point and phase 9 fail.
C18_NineOfTwelveFail ==
    /\ RejectedExactlyWhenNonMatching
    /\ current_round # None => Cardinality(NonMatching) = 9

\* C18, amended: each entry point rejects every non-matching phase with
\* PhaseMismatch and no matching one; deliver_tx and end_block share a phase,
\* so of the 12 combinations 8 fail for their phase.
C18_EightOfTwelveFail ==
    /\ RejectedExactlyWhenNonMatching
    /\ current_round # None => Cardinality(NonMatching) = 8

\* end_block was rejected on a set-up Period that waits for a commit
C18_Witness ==
    /\ current_round # None
    /\ block_construction_phase = WAITING_FOR_COMMIT
    /\ outcome.op = "end_block"
    /\ outcome.res = "PhaseMismatch"

\* ------------------------------------------ ConsensusParams, called directly
\* participant counts around 0 and around 3 * 2^51, where 2n/3 reaches 2^52
ParticipantCounts ==
    {PyInt(0, i) : i \in -1..MaxParticipants}
        \cup {PyInt(3 * 2^24, i) : i \in -MaxParticipants..MaxParticipants}

ParamsInit == NewPeriod /\ NoRoundCalls /\ NoParams /\ NoPayloadClasses /\ NoPeriodState
    /\ NoBehaviours

construct(max_participants) ==
    /\ consensus_params = None
    /\ consensus_params' = Some(NewConsensusParams(max_participants))
    /\ params_call' = [op |-> "ConsensusParams", res |-> Ok, ret |-> None]
    /\ UNCHANGED apart_from_params

from_json(max_participants) ==
    LET r == ConsensusParams_from_json(max_participants) IN
    /\ consensus_params = None
    /\ consensus_params' = r.ret
    /\ params_call' = [op |-> "from_json", res |-> r.res, ret |-> None]
    /\ UNCHANGED apart_from_params

read_two_thirds_threshold ==
    /\ consensus_params # None
    /\ params_call' = [op |-> "two_thirds_threshold", res |-> Ok,
                       ret |-> Some(two_thirds_threshold(Get(consensus_params)))]
    /\ UNCHANGED << consensus_params, apart_from_params >>

ParamsNext ==
    \/ \E n \in ParticipantCounts : construct(n)
    \/ \E n \in ParticipantCounts : from_json(n)
    \/ read_two_thirds_threshold

ParamsSpec == ParamsInit /\ [][ParamsNext]_vars

\* t is the ceiling of 2n/3: the least integer with 3t >= 2n
IsCeilingOfTwoThirds(t, n) ==
    /\ ~Less(Times(3, t), Times(2, n))
    /\ Less(Times(3, t), Plus(Times(2, n), 3))

FirstThresholds == <<0, 1, 2, 2, 3, 4, 4, 5>>

\* the threshold was read and is the ceiling of two thirds of the count
ThresholdIsCeiling ==
    LET n == Get(consensus_params).max_participants
        t == Get(params_call.ret)
    IN  /\ IsCeilingOfTwoThirds(t, n)
        /\ n.hi = 0 /\ n.lo <= 7 => t = PyInt(0, FirstThresholds[n.lo + 1])

\* C16: for every max_participants n >= 0 two_thirds_threshold is the
\* ceiling of 2n/3, and for n = 0..7 it is 0, 1, 2, 2, 3, 4, 4, 5.
C16_TwoThirdsCeiling ==
    params_call.op = "two_thirds_threshold" /\ Get(consensus_params).max_participants.hi >= 0
        => ThresholdIsCeiling

\* the same for the counts below 3 * 2^51 only
TwoThirdsCeilingBelow2to52 ==
    /\ params_call.op = "two_thirds_threshold"
    /\ Get(consensus_params).max_participants.hi >= 0
    /\ Less(Get(consensus_params).max_participants, PyInt(3 * 2^24, 0))
    => ThresholdIsCeiling

\* ------------------------------------------------------ the payload classes
PayloadInit == NewPeriod /\ NoRoundCalls /\ NoParams /\ NoPayloadClasses /\ NoPeriodState
    /\ NoBehaviours

\* a class statement is executed
define_class(statement) ==
    LET r == MetaPayload_new(transaction_type_to_payload_cls, payload_classes, statement) IN
    /\ Len(payload_classes) < MaxClasses
    /\ transaction_type_to_payload_cls' = r.registry
    /\ payload_classes' = r.classes
    /\ codec_call' = [op |-> "define_class", res |-> r.res, cls |-> Len(payload_classes) + 1,
                      transaction_type |-> statement.transaction_type,
                      tx |-> None, decoded |-> None]
    /\ UNCHANGED apart_from_payloads

\* _validate_transaction_type is called for an existing class
call_validate_transaction_type(transaction_type, cls) ==
    /\ codec_call' = [op |-> "validate_transaction_type",
                      res |-> validate_transaction_type(transaction_type_to_payload_cls,
                                                        str(transaction_type), cls),
                      cls |-> cls, transaction_type |-> transaction_type,
                      tx |-> None, decoded |-> None]
    /\ UNCHANGED << transaction_type_to_payload_cls, payload_classes, apart_from_payloads >>

\* the transactions that carry a payload of one of the classes
PayloadTransactions ==
    {[payload |-> [cls |-> cls, sender |-> PyStr(sender), data |-> data],
      signature |-> PyStr("s")] :
        cls \in 1..Len(payload_classes), sender \in Senders,
        data \in UNION {[payload_classes[c].fields -> {PyStr("1"), PyStr("2")}] :
                           c \in 1..Len(payload_classes)}}

\* Transaction.decode(transaction.encode())
decode_encode(transaction) ==
    LET r == Transaction_decode(transaction_type_to_payload_cls, payload_classes,
                                Transaction_encode(payload_classes, transaction)) IN
    /\ DOMAIN transaction.payload.data = payload_classes[transaction.payload.cls].fields
    /\ codec_call' = [op |-> "decode_encode", res |-> r.res, cls |-> transaction.payload.cls,
                      transaction_type |-> "-", tx |-> Some(transaction), decoded |-> r.ret]
    /\ UNCHANGED << transaction_type_to_payload_cls, payload_classes, apart_from_payloads >>

PayloadNext ==
    \/ \E statement \in ClassStatements : define_class(statement)
    \/ \E transaction_type \in Tags, cls \in 1..Len(payload_classes) :
           call_validate_transaction_type(transaction_type, cls)
    \/ \E transaction \in PayloadTransactions : decode_encode(transaction)

PayloadSpec == PayloadInit /\ [][PayloadNext]_vars

\* the class statement that ends in this step went on to register its class
Registering ==
    /\ codec_call'.op = "define_class"
    /\ codec_call' # codec_call
    /\ \E statement \in ClassStatements :
           /\ ~statement.in_packages
           /\ ~statement.abstract
           /\ define_class(statement)

RegisteredTag == str(payload_classes'[codec_call'.cls].transaction_type)

\* C17: registering a tag that is bound to a different class fails with
\* DuplicateTag and leaves the binding; registering it for the class it is
\* bound to raises nothing and changes nothing; so every tag stays bound to
\* the first class registered for it and no binding is ever removed or
\* replaced.
C17_FirstBindingStays ==
    [][/\ \A tag \in DOMAIN transaction_type_to_payload_cls :
              /\ tag \in DOMAIN transaction_type_to_payload_cls'
              /\ transaction_type_to_payload_cls'[tag] = transaction_type_to_payload_cls[tag]
       /\ codec_call'.res = "DuplicateTag" =>
              /\ transaction_type_to_payload_cls' = transaction_type_to_payload_cls
              /\ payload_classes' = payload_classes
       /\ Registering /\ codec_call'.res = Ok =>
              /\ RegisteredTag \notin DOMAIN transaction_type_to_payload_cls
              /\ transaction_type_to_payload_cls' =
                     Bind(transaction_type_to_payload_cls, RegisteredTag, codec_call'.cls)
       /\ \A tag \in Tags :
              str(tag) \in DOMAIN transaction_type_to_payload_cls' =>
                  LET bound == transaction_type_to_payload_cls'[str(tag)] IN
                  /\ register(transaction_type_to_payload_cls', bound, tag)
                         = [res |-> Ok, registry |-> transaction_type_to_payload_cls']
                  /\ \A other \in 1..(Len(payload_classes') + 1) :
                         other # bound =>
                             register(transaction_type_to_payload_cls', other, tag)
                                 = [res |-> "DuplicateTag",
                                    registry |-> transaction_type_to_payload_cls']
      ]_vars

\* a second class asked for a bound tag and was refused, and the tag is
\* still bound to the first class
C17_Witness ==
    /\ codec_call.op = "define_class"
    /\ codec_call.res = "DuplicateTag"
    /\ codec_call.cls = 2
    /\ DOMAIN transaction_type_to_payload_cls = {str("a")}
    /\ transaction_type_to_payload_cls[str("a")] = 1

\* ----------------------------------------------- a period state, called directly
AllNames == {participants, safe_contract_address, unknown_field}

StateInit == NewPeriod /\ NoRoundCalls /\ NoParams /\ NoPayloadClasses /\ NoPeriodState
    /\ NoBehaviours

new_state(cls, kwargs) ==
    LET r == BasePeriodState_init(cls, kwargs) IN
    /\ period_state = None
    /\ period_state' = r.ret
    /\ state_call' = [op |-> "BasePeriodState", res |-> r.res, kwargs |-> kwargs, ret |-> None]
    /\ UNCHANGED apart_from_state

update(kwargs) ==
    /\ period_state # None
    /\ LET r == BasePeriodState_update(Get(period_state), kwargs) IN
       /\ period_state' = Some(r.self)
       /\ state_call' = [op |-> "update", res |-> r.res, kwargs |-> kwargs, ret |-> r.ret]
    /\ UNCHANGED apart_from_state

StateNext ==
    \/ \E cls \in StateClasses, kwargs \in Kwargs(AllNames) : new_state(cls, kwargs)
    \/ \E kwargs \in Kwargs(AllNames) : update(kwargs)

StateSpec == StateInit /\ [][StateNext]_vars

\* the value of a field of a state
Field(state, name) == state.dict[<< "_" >> \o name]

\* C19: for every state x and overrides o of its fields, x.update(**o)
\* returns a new state of the same class that has o[k] in every field k of o
\* and the value of x in every other field, and x is as it was.
C19_UpdateOverrides ==
    [][state_call'.op = "update" /\ state_call' # state_call
           /\ DOMAIN state_call'.kwargs \subseteq Get(period_state).cls.params =>
        LET x == Get(period_state)
            o == state_call'.kwargs
        IN  /\ state_call'.res = Ok
            /\ Get(state_call'.ret).cls = x.cls
            /\ DOMAIN Get(state_call'.ret).dict = DOMAIN x.dict
            /\ \A name \in x.cls.params :
                   Field(Get(state_call'.ret), name) =
                       IF name \in DOMAIN o THEN o[name] ELSE Field(x, name)
            /\ period_state' = period_state]_vars

\* update overrode one field of two with another value and returned a state
\* that differs from the one it was called on
C19_Witness ==
    /\ state_call.op = "update"
    /\ state_call.res = Ok
    /\ DOMAIN state_call.kwargs = {safe_contract_address}
    /\ Field(Get(period_state), participants) = "v1"
    /\ Field(Get(period_state), safe_contract_address) = "v1"
    /\ Field(Get(state_call.ret), safe_contract_address) = "v2"

\* the class is the one its tag is bound to
Registered(cls) ==
    LET transaction_type == str(payload_classes[cls].transaction_type) IN
    /\ transaction_type \in DOMAIN transaction_type_to_payload_cls
    /\ transaction_type_to_payload_cls[transaction_type] = cls

\* C20: for every Transaction t whose payload class is registered,
\* Transaction.decode(t.encode()) == t: the decoded payload is of the class
\* the tag is bound to, which is the class of t's payload, with equal sender
\* and data, and the signature is the same.
C20_DecodeEncode ==
    codec_call.op = "decode_encode" /\ Registered(codec_call.cls) =>
        LET t == Get(codec_call.tx) IN
        /\ codec_call.res = Ok
        /\ Transaction_eq(Get(codec_call.decoded), t)
        /\ Get(codec_call.decoded).payload.cls = t.payload.cls
        /\ Get(codec_call.decoded).payload.sender = t.payload.sender
        /\ Get(codec_call.decoded).payload.data = t.payload.data
        /\ Get(codec_call.decoded).signature = t.signature

\* a transaction of a registered class with a field went through, while
\* another class with the same tag is not registered
C20_Witness ==
    /\ codec_call.op = "decode_encode"
    /\ codec_call.res = Ok
    /\ Registered(codec_call.cls)
    /\ Len(payload_classes) = 2
    /\ payload_classes[1].transaction_type = payload_classes[2].transaction_type
    /\ Get(codec_call.tx).payload.sender = PyStr("B")
    /\ DOMAIN Get(codec_call.tx).payload.data = {"x"}
    /\ Get(codec_call.tx).payload.data["x"] = PyStr("2")

\* the direct call that ends in this step, its payload tag and what
\* check_transaction answers for it
RoundCalled(op) == round_call'.op = op /\ round_call' # round_call

CalledTx == Get(round_call'.tx)

CalledTag == CalledTx.payload.transaction_type

HasApplier == CalledTag \in abstract_round.handlers

CheckPasses == CalledTag \in abstract_round.checkers /\ round_call'.verdict

AppliedOnce == abstract_round' = [abstract_round EXCEPT !.applied = Append(@, CalledTx.payload)]

\* C14 as stated: process_transaction re-runs check_transaction; if the check
\* is false it fails with TransactionNotValid and the applier is not invoked;
\* if the round has no applier for the tag it fails with
\* UnknownTransactionType; otherwise the applier is invoked exactly once with
\* the payload.
C14_CheckThenApplier ==
    [][RoundCalled("process_transaction") =>
        /\ ~CheckPasses =>
              round_call'.res = "TransactionNotValid" /\ abstract_round' = abstract_round
        /\ CheckPasses /\ ~HasApplier =>
              round_call'.res = "UnknownTransactionType" /\ abstract_round' = abstract_round
        /\ CheckPasses /\ HasApplier =>
              round_call'.res = Ok /\ AppliedOnce]_vars

\* C14, amended: process_transaction first looks the tag's applier up and
\* fails with UnknownTransactionType if the round has none, whatever the check
\* would say; otherwise it re-runs check_transaction and, if the check is
\* false, fails with TransactionNotValid without invoking the applier;
\* otherwise it invokes the applier exactly once with the payload.
C14_ApplierThenCheck ==
    [][RoundCalled("process_transaction") =>
        /\ ~HasApplier =>
              round_call'.res = "UnknownTransactionType" /\ abstract_round' = abstract_round
        /\ HasApplier /\ ~CheckPasses =>
              round_call'.res = "TransactionNotValid" /\ abstract_round' = abstract_round
        /\ HasApplier /\ CheckPasses =>
              round_call'.res = Ok /\ AppliedOnce]_vars

\* process_transaction was called with a tag the round has no applier for and
\* a check that is false, after an applier had been invoked
C14_Witness ==
    /\ round_call.op = "process_transaction"
    /\ Get(round_call.tx).payload.transaction_type \notin abstract_round.handlers
    /\ ~round_call.verdict
    /\ round_call.res = "UnknownTransactionType"
    /\ abstract_round.applied # <<>>

\* C15: check_transaction returns false when the round has no checker for
\* the payload's tag and otherwise exactly the verdict of that tag's checker,
\* whoever sent the payload, and it leaves the round and the Period as they are.
C15_CheckTransaction ==
    [][RoundCalled("check_transaction") =>
        /\ round_call'.res = Ok
        /\ round_call'.ret =
               IF CalledTag \in abstract_round.checkers
                   THEN Bool(round_call'.verdict)
                   ELSE "False"
        /\ abstract_round' = abstract_round
        /\ period' = period]_vars

\* check_transaction answered False for a tag without a checker although the
\* verdict on offer was True, on a round that has a checker for another tag
C15_Witness ==
    /\ round_call.op = "check_transaction"
    /\ Get(round_call.tx).payload.transaction_type \notin abstract_round.checkers
    /\ abstract_round.checkers # {}
    /\ round_call.verdict
    /\ round_call.ret = "False"

\* C21: if within deliver_tx the round's check_transaction returns true but
\* process_transaction then rejects the transaction (its own check says no,
\* or the round has no applier for the tag), deliver_tx raises that error
\* instead of returning False, the transaction is not added to the block
\* under construction and the phase stays WAITING_FOR_DELIVER_TX.
C21_DisagreementFailsFast ==
    [][\A transaction \in Transactions, verdict1 \in BOOLEAN, verdict2 \in BOOLEAN :
           ( /\ outcome'.op = "deliver_tx"
             /\ block_construction_phase = WAITING_FOR_DELIVER_TX
             /\ current_round # None
             /\ check_transaction(Get(current_round), transaction, verdict1)
             /\ process_transaction(Get(current_round), transaction, verdict2).err # Ok
             /\ deliver_tx(transaction, verdict1, verdict2) ) =>
                /\ outcome'.res
                       = process_transaction(Get(current_round), transaction, verdict2).err
                /\ outcome'.res \in {"TransactionNotValid", "UnknownTransactionType"}
                /\ outcome'.ret # "False"
                /\ current_transactions' = current_transactions
                /\ block_construction_phase' = WAITING_FOR_DELIVER_TX
                /\ current_round' = current_round
      ]_vars

\* after one transaction was accepted, a second one passed deliver_tx's check
\* and was then refused by the check process_transaction ran
C21_Witness ==
    /\ outcome.op = "deliver_tx"
    /\ outcome.res = "TransactionNotValid"
    /\ block_construction_phase = WAITING_FOR_DELIVER_TX
    /\ Len(cycle.deliveries) = 2
    /\ cycle.deliveries[2].valid = "True"
    /\ Len(current_transactions) = 1

\* C23: whenever the phase is WAITING_FOR_DELIVER_TX or WAITING_FOR_COMMIT
\* the Period has a current round, so no deliver_tx and no commit ever finds
\* the round missing; and the current round is lost only in a commit that
\* returns normally and leaves the phase at WAITING_FOR_BEGIN_BLOCK.
C23_RoundWhileBlockOpen ==
    /\ [](block_construction_phase \in {WAITING_FOR_DELIVER_TX, WAITING_FOR_COMMIT}
              => ~is_finished(Self))
    /\ [](outcome.res \notin {"AttributeError", "CurrentRoundNotSet"})
    /\ [][ current_round # None /\ current_round' = None =>
             /\ Called("commit")
             /\ outcome'.res = Ok
             /\ block_construction_phase = WAITING_FOR_COMMIT
             /\ block_construction_phase' = WAITING_FOR_BEGIN_BLOCK
         ]_vars

\* the second commit ended the period and reopened the phase for begin_block
C23_Witness ==
    /\ outcome.op = "commit"
    /\ outcome.res = Ok
    /\ is_finished(Self)
    /\ block_construction_phase = WAITING_FOR_BEGIN_BLOCK
    /\ Len(blocks) = 2
    /\ Len(previous_rounds) = 2

\* the block that is waiting for its commit cannot be added to the chain
Stuck ==
    /\ block_construction_phase = WAITING_FOR_COMMIT
    /\ current_header # None
    /\ Get(current_header).height # height(blocks)

\* what the entry points do to a Period one of whose commits has failed
\* with AddBlockError, whatever happens to its current round
StaysStuck ==
    commit_failed =>
        /\ block_construction_phase = WAITING_FOR_COMMIT
        /\ block_construction_phase' = WAITING_FOR_COMMIT
        /\ blocks' = blocks
        /\ previous_rounds' = previous_rounds
        /\ round_results' = round_results
        /\ end_block_calls' = end_block_calls
        /\ \A op \in {"begin_block", "deliver_tx", "end_block"} :
               Called(op) => outcome'.res = "PhaseMismatch" /\ period' = period
        /\ Called("commit") => outcome'.res = "AddBlockError" /\ period' = period

\* C24 as stated: after a commit has failed with AddBlockError the phase
\* stays WAITING_FOR_COMMIT, every later begin_block, deliver_tx and end_block
\* fails, every later commit fails with AddBlockError, and the chain, the
\* current round and the histories never change again.
C24_StuckForGood ==
    [][ /\ StaysStuck
        /\ commit_failed => current_round' = current_round ]_vars

\* C24, amended: as stated, except that the current round stays the same
\* only as long as setup is not called again; a setup installs a new round
\* and leaves the Period as stuck as it was.
C24_StuckUntilSetup ==
    /\ [](commit_failed => Stuck)
    /\ [][ /\ StaysStuck
           /\ commit_failed /\ ~Called("setup") => current_round' = current_round
           /\ commit_failed /\ Called("setup") =>
                 /\ current_round' # current_round
                 /\ current_round' # None ]_vars

\* on an empty chain a block begun with height 2 has failed at its commit
C24_Witness ==
    /\ Stuck
    /\ commit_failed
    /\ calls = 3
    /\ outcome.op = "commit"
    /\ outcome.res = "AddBlockError"
    /\ blocks = <<>>
    /\ Get(current_header).height = 2
    /\ end_block_calls = <<>>

\* the last invocation of a round's end_block raised
EndBlockRaised == end_block_calls # <<>> /\ Last(end_block_calls).kind = "raise"

\* a commit that can add its block, with a round whose end_block raises
RaisingCommit ==
    /\ block_construction_phase = WAITING_FOR_COMMIT
    /\ current_header # None
    /\ Get(current_header).height = height(blocks)
    /\ commit([kind |-> "raise", result |-> "-", next_round |-> None])

\* C25: if the current round's end_block raises during commit, the block
\* stays appended to the chain while the phase stays WAITING_FOR_COMMIT and
\* the current round and both histories are unchanged; every later commit
\* fails with AddBlockError before it reaches the round, so end_block is not
\* invoked a second time for that block.
C25_RaisingEndBlock ==
    [][ /\ RaisingCommit =>
              /\ outcome'.res = "RoundError"
              /\ blocks' = Append(blocks, [header |-> Get(current_header),
                                           transactions |-> current_transactions])
              /\ block_construction_phase' = WAITING_FOR_COMMIT
              /\ current_round' = current_round
              /\ previous_rounds' = previous_rounds
              /\ round_results' = round_results
              /\ end_block_calls' = Append(end_block_calls, Last(end_block_calls'))
              /\ EndBlockRaised'
              /\ Last(end_block_calls').at = Len(blocks')
        /\ EndBlockRaised =>
              /\ EndBlockRaised'
              /\ end_block_calls' = end_block_calls
              /\ blocks' = blocks
              /\ block_construction_phase' = WAITING_FOR_COMMIT
              /\ Called("commit") => outcome'.res = "AddBlockError"
      ]_vars

\* the second block was appended by a commit whose round raised, and the
\* commit tried again was refused with the round not asked again
C25_Witness ==
    /\ EndBlockRaised
    /\ outcome.op = "commit"
    /\ outcome.res = "AddBlockError"
    /\ Len(blocks) = 2
    /\ Len(end_block_calls) = 2
    /\ Last(end_block_calls).at = 2

\* setup has not been called
NotSetUp == rounds_created = 0

\* C26: a Period on which setup has not been called is finished, its phase
\* is WAITING_FOR_BEGIN_BLOCK and its chain is empty; begin_block is refused
\* as finished and the other three entry points for their phase, each
\* without changing the Period; only setup changes it, by installing the
\* starting round.
C26_NothingBeforeSetup ==
    /\ [](NotSetUp =>
             /\ is_finished(Self)
             /\ block_construction_phase = WAITING_FOR_BEGIN_BLOCK
             /\ blocks = <<>>)
    /\ [][NotSetUp =>
             /\ Called("begin_block") => outcome'.res = "PeriodFinished"
             /\ \A op \in {"deliver_tx", "end_block", "commit"} :
                    Called(op) => outcome'.res = "PhaseMismatch"
             /\ \A op \in EntryPoints : Called(op) => period' = period /\ NotSetUp'
             /\ period' # period =>
                    /\ Called("setup")
                    /\ outcome'.res = Ok
                    /\ ~is_finished(Self)'
                    /\ Get(current_round').round_id = 1
                    /\ blocks' = <<>>
         ]_vars

\* commit was refused on a Period that has not been set up
C26_Witness ==
    /\ NotSetUp
    /\ outcome.op = "commit"
    /\ outcome.res = "PhaseMismatch"
    /\ blocks = <<>>

\* ------------------------------------------------- DeploySafeBehaviour
\* safe_deployment_abci/behaviours.py.  async_act is a generator: it runs
\* up to a helper it yields from and resumes with what the helper returns.
\* The helpers (wait_until_round_end, get_contract_api_response,
\* send_raw_transaction, get_transaction_receipt, send_a2a_transaction,
\* set_done) belong to the base class; the behaviour's calls of them are
\* recorded in order and what they return is an input.

\* the agents; agent i has address i
Agents == 1 .. MaxAgents

\* the addresses a period state may name as keeper: any agent's, or one that
\* is no agent's
Addresses == 0 .. MaxAgents

RAW_TRANSACTION == "raw_transaction"

\* the performatives of a contract api response
Performatives == {RAW_TRANSACTION, "error"}

ContractAddresses == {"0xsafe"}

TxDigests == {None, Some("0xdigest")}

TxReceipts == {None, Some("receipt")}

\* the helpers through which a behaviour sends something
Sending == {"get_contract_api_response", "send_raw_transaction", "send_a2a_transaction"}

\* a DeploySafeBehaviour before async_act is started
NewDeploySafeBehaviour(agent_address, most_voted_keeper_address) ==
    [agent_address |-> agent_address,
     most_voted_keeper_address |-> most_voted_keeper_address,
     path |-> "-",
     at |-> "created",
     called |-> <<>>,
     contract_address |-> None,
     payload |-> None,
     done |-> FALSE,
     raised |-> "-"]

\* the behaviour calls a helper and waits for it at a yield
Yield(self, helper) ==
    [self EXCEPT !.at = helper, !.called = Append(@, helper)]

\* self.set_done() and the end of the generator
set_done(self) ==
    [self EXCEPT !.done = TRUE, !.called = Append(@, "set_done"), !.at = "returned"]

\* raise RuntimeError("Safe deployment failed!")
deployment_failed(self) ==
    [self EXCEPT !.raised = "RuntimeError", !.at = "raised"]

DeploySafePayload(sender, contract_address) ==
    [transaction_type |-> "deploy_safe", sender |-> sender,
     contract_address |-> contract_address]

\* _not_deployer_act up to its yield
not_deployer_act(self) ==
    Yield([self EXCEPT !.path = "_not_deployer_act"], "wait_until_round_end")

\* _deployer_act up to its first yield, in _send_deploy_transaction
deployer_act(self) ==
    Yield([self EXCEPT !.path = "_deployer_act"], "get_contract_api_response")

\* as async_act, with the comparison the other way round
DeploySafeBehaviour_async_act_inverted(self) ==
    IF self.agent_address = self.most_voted_keeper_address
    THEN not_deployer_act(self)
    ELSE deployer_act(self)

DeploySafeBehaviour_async_act(self) ==
    IF self.agent_address # self.most_voted_keeper_address
    THEN not_deployer_act(self)
    ELSE deployer_act(self)

\* _send_deploy_transaction after get_contract_api_response
after_contract_api_response(self, performative, contract_address) ==
    IF performative # RAW_TRANSACTION
    THEN deployment_failed(self)
    ELSE Yield([self EXCEPT !.contract_address = Some(contract_address)],
               "send_raw_transaction")

\* _send_deploy_transaction after send_raw_transaction
after_send_raw_transaction(self, tx_digest) ==
    IF tx_digest = None
    THEN deployment_failed(self)
    ELSE Yield(self, "get_transaction_receipt")

\* _send_deploy_transaction after get_transaction_receipt, and _deployer_act
\* up to send_a2a_transaction
after_get_transaction_receipt(self, tx_receipt) ==
    IF tx_receipt = None
    THEN deployment_failed(self)
    ELSE Yield([self EXCEPT !.payload =
                    Some(DeploySafePayload(self.agent_address,
                                           Get(self.contract_address)))],
               "send_a2a_transaction")

\* _deployer_act after send_a2a_transaction
after_send_a2a_transaction(self) == Yield(self, "wait_until_round_end")

\* either path after wait_until_round_end
after_wait_until_round_end(self) == set_done(self)

\* every agent has a behaviour, each with the period state of its own
DeployInit ==
    /\ NewPeriod
    /\ NoRoundCalls
    /\ NoParams
    /\ NoPayloadClasses
    /\ NoPeriodState
    /\ \E keeper \in [Agents -> Addresses] :
           behaviours = [a \in Agents |-> NewDeploySafeBehaviour(a, keeper[a])]

\* the behaviour of agent a goes on to what the step leaves
Resume(a, at, next) ==
    /\ behaviours[a].at = at
    /\ behaviours' = [behaviours EXCEPT ![a] = next]
    /\ UNCHANGED apart_from_behaviours

async_act(a) ==
    Resume(a, "created", DeploySafeBehaviour_async_act(behaviours[a]))

contract_api_response(a, performative, contract_address) ==
    Resume(a, "get_contract_api_response",
           after_contract_api_response(behaviours[a], performative, contract_address))

raw_transaction_sent(a, tx_digest) ==
    Resume(a, "send_raw_transaction",
           after_send_raw_transaction(behaviours[a], tx_digest))

transaction_receipt(a, tx_receipt) ==
    Resume(a, "get_transaction_receipt",
           after_get_transaction_receipt(behaviours[a], tx_receipt))

a2a_transaction_sent(a) ==
    Resume(a, "send_a2a_transaction", after_send_a2a_transaction(behaviours[a]))

round_end(a) ==
    Resume(a, "wait_until_round_end", after_wait_until_round_end(behaviours[a]))

DeployNext ==
    \E a \in Agents :
        \/ async_act(a)
        \/ \E performative \in Performatives, contract_address \in ContractAddresses :
               contract_api_response(a, performative, contract_address)
        \/ \E tx_digest \in TxDigests : raw_transaction_sent(a, tx_digest)
        \/ \E tx_receipt \in TxReceipts : transaction_receipt(a, tx_receipt)
        \/ a2a_transaction_sent(a)
        \/ round_end(a)

DeploySpec == DeployInit /\ [][DeployNext]_vars

\* s is an initial part of t
IsPrefix(s, t) == Len(s) <= Len(t) /\ s = SubSeq(t, 1, Len(s))

\* what the deployer path calls, in order, when nothing fails
DeployerCalls ==
    << "get_contract_api_response", "send_raw_transaction",
       "get_transaction_receipt", "send_a2a_transaction",
       "wait_until_round_end", "set_done" >>

Started(b) == b.at # "created"

Deployer(b) == b.path = "_deployer_act"

\* C22: a started behaviour is on the deployer path exactly when its agent
\* address is the period state's most voted keeper address.  A deployer
\* asks for and sends the deployment transaction and then, the deployment
\* having succeeded, sends a DeploySafePayload in its own name, waits for
\* the end of the round and sets done; it fails only where a step of the
\* deployment failed.  Any other agent only waits for the end of the round
\* and sets done, calling no helper that sends.  Of the agents whose period
\* states name the same keeper at most one is a deployer.
C22_OnlyTheKeeperDeploys ==
    /\ \A a \in DOMAIN behaviours :
           LET b == behaviours[a] IN
           Started(b) =>
               /\ Deployer(b) <=> b.agent_address = b.most_voted_keeper_address
               /\ ~Deployer(b) =>
                      /\ b.path = "_not_deployer_act"
                      /\ IsPrefix(b.called, << "wait_until_round_end", "set_done" >>)
                      /\ \A i \in DOMAIN b.called : b.called[i] \notin Sending
                      /\ b.payload = None
                      /\ b.raised = "-"
                      /\ b.done <=> Len(b.called) = 2
               /\ Deployer(b) =>
                      /\ IsPrefix(b.called, DeployerCalls)
                      /\ b.payload # None <=> Len(b.called) >= 4
                      /\ b.payload # None =>
                             /\ Get(b.payload).sender = b.agent_address
                             /\ Get(b.payload).contract_address = Get(b.contract_address)
                      /\ b.done <=> b.called = DeployerCalls
                      /\ b.raised # "-" => Len(b.called) \in 1 .. 3 /\ ~b.done
    /\ \A a1 \in DOMAIN behaviours, a2 \in DOMAIN behaviours :
           ( /\ Started(behaviours[a1]) /\ Deployer(behaviours[a1])
             /\ Started(behaviours[a2]) /\ Deployer(behaviours[a2])
             /\ behaviours[a1].most_voted_keeper_address =
                    behaviours[a2].most_voted_keeper_address ) => a1 = a2

\* of three agents with the same keeper one has deployed and sent its
\* payload and the two others have only waited, and all are done
C22_Witness ==
    /\ DOMAIN behaviours = Agents
    /\ \A a \in Agents : behaviours[a].most_voted_keeper_address = 2
    /\ \A a \in Agents : behaviours[a].done
    /\ behaviours[2].called = DeployerCalls
    /\ behaviours[2].payload = Some(DeploySafePayload(2, "0xsafe"))
    /\ \A a \in Agents \ {2} :
           behaviours[a].called = << "wait_until_round_end", "set_done" >>

====
